---- MODULE Spec2Model ----
\* Model of src/app.py: a Flask application that keeps, per browser session,
\* an uploaded document's text, its filename and a chat transcript, and
\* forwards document + transcript to a language model on every chat turn.
\*
\* Strings whose content matters (questions, replies, page texts, filenames)
\* are sequences of one-character strings, so that str.strip(), str.lower()
\* and str.endswith() are computed rather than assumed.
\*
\* The session is Flask's default client-side session: the request handler
\* works on a private copy decoded from the cookie the request carried, and
\* the copy is written back (Set-Cookie) when the response is produced, but
\* only if the session object was marked modified (__setitem__, clear).
\* In-place mutation of a list stored in the session does not mark it.
EXTENDS Integers, Sequences, FiniteSets, TLC

\* ---------------------------------------------------------------- bounds
MaxPad == 1             \* most whitespace characters around a chat message
MaxExchanges == 2       \* most user+assistant pairs a transcript may hold
MaxInFlight == 2        \* most requests of one client being handled at once

\* ---------------------------------------------------------------- inputs
Sessions == {"A", "B"}
Whitespace == {" ", "\n"}

\* runs of at most n blanks
Pads(n) == {[i \in 1..k |-> " "] : k \in 0..n}

\* message bodies: nothing, a word, two words with a blank between them
Words == {<<>>, <<"a">>, <<"a", " ", "b">>}

\* request.form["question"] values a client may post
Questions == {l \o w \o r : l \in Pads(MaxPad), w \in Words, r \in Pads(MaxPad)}

\* what model.generate_content(...).text may return
Replies == {<<"r">>, <<"s", " ">>}

\* outcome of the model call: a reply, or an exception
Outcomes == {[ok |-> TRUE, text |-> t] : t \in Replies}
               \cup {[ok |-> FALSE, text |-> <<>>]}

\* request.files.get("pdf"): None, or an uploaded file
NoFile == [present |-> FALSE, filename |-> <<>>, readable |-> FALSE, pages |-> <<>>]
File(name, readable, pages) ==
    [present |-> TRUE, filename |-> name, readable |-> readable, pages |-> pages]
FileMissing == NoFile
FileNoName == File(<<>>, TRUE, << <<"d">> >>)
FileTxt == File(<<"c", ".", "t", "x", "t">>, TRUE, << <<"d">> >>)
FilePdf == File(<<"a", ".", "p", "d", "f">>, TRUE, << <<"d">> >>)
FilePdfUpper ==
    File(<<"B", ".", "P", "D", "F">>, TRUE, << <<" ", "d">>, <<>>, <<"e", " ">> >>)
FileScanned == File(<<"a", ".", "p", "d", "f">>, TRUE, << <<>>, <<" ">> >>)
FileCorrupt == File(<<"a", ".", "p", "d", "f">>, FALSE, <<>>)
Files ==
    {FileMissing, FileNoName, FileTxt, FilePdf, FilePdfUpper, FileScanned, FileCorrupt}

\* ------------------------------------------------------- string helpers
Min(S) == CHOOSE x \in S : \A y \in S : x <= y
Max(S) == CHOOSE x \in S : \A y \in S : x >= y

\* variant: the message is taken as posted, without .strip()
Strip_none(s) == s

\* str.strip()
Strip(s) ==
    LET keep == {i \in 1..Len(s) : s[i] \notin Whitespace}
    IN  IF keep = {} THEN <<>> ELSE SubSeq(s, Min(keep), Max(keep))

LowerChar(c) ==
    CASE c = "B" -> "b" [] c = "P" -> "p" [] c = "D" -> "d" [] c = "F" -> "f"
      [] OTHER -> c

\* str.lower()
Lower(s) == [i \in 1..Len(s) |-> LowerChar(s[i])]

\* str.endswith(suffix)
EndsWith(s, suffix) ==
    /\ Len(s) >= Len(suffix)
    /\ SubSeq(s, Len(s) - Len(suffix) + 1, Len(s)) = suffix

DotPdf == <<".", "p", "d", "f">>

\* ------------------------------------------------------- session object
EmptySession == [k \in {} |-> <<>>]

\* "key in session"
Has(sess, k) == k \in DOMAIN sess

\* session.get(key, default)
Get(sess, k, default) == IF k \in DOMAIN sess THEN sess[k] ELSE default

\* session[key] = value
Set(sess, k, v) ==
    [x \in DOMAIN sess \cup {k} |-> IF x = k THEN v ELSE sess[x]]

Turn(role, content) == [role |-> role, content |-> content]

\* render_template("index.html", **kwargs): the keyword arguments passed
View(has_document, kw) == Set(kw, "has_document", has_document)
NoKw == [k \in {} |-> <<>>]

\* ------------------------------------------------------------- handlers
\* Each handler maps the request's private session copy and the request's
\* inputs to: the session object at the end of the request, whether it was
\* marked modified, the rendered view, and the model calls it made
\* (each call recorded with the arguments passed to analyze_with_gemini).
Result(sess, modified, resp, calls) ==
    [session |-> sess, modified |-> modified, resp |-> resp, calls |-> calls]

RECURSIVE JoinPages(_)
JoinPages(pages) ==
    IF pages = <<>> THEN <<>>
    ELSE LET page_text == Head(pages)
         IN  IF page_text # <<>>
             THEN page_text \o <<"\n">> \o JoinPages(Tail(pages))
             ELSE JoinPages(Tail(pages))

\* variant: the joined page texts are returned without the final .strip()
extract_text_from_pdf_unstripped(pdf_file) == JoinPages(pdf_file.pages)

extract_text_from_pdf(pdf_file) == Strip(JoinPages(pdf_file.pages))

\* lines 20-23: the fixed instructions, kept as one piece of text
SYSTEM_PROMPT == "You are an advanced PhD-level specialist ..."

\* the fixed pieces of the f-string at lines 46-54
DocumentOpen == "\n\n--- DOCUMENT CONTENT ---\n"
DocumentClose ==
    "\n--- END DOCUMENT ---\n\nBelow is the conversation so far. Continue naturally from here.\n\n"

\* lines 57-58: one history entry, rendered as "<Role>: <content>\n\n"
render_message(msg) ==
    LET role == IF msg.role = "user" THEN "User" ELSE "Assistant"
    IN  <<role, ": ">> \o msg.content \o <<"\n\n">>

RECURSIVE render_history(_)
render_history(conversation_history) ==
    IF conversation_history = <<>> THEN <<>>
    ELSE render_message(Head(conversation_history))
            \o render_history(Tail(conversation_history))

\* variant: the role is compared with the capitalised name, so no entry is
\* recognised as the user's
build_messages_role_case(document_text, conversation_history) ==
    LET as_assistant ==
            [i \in DOMAIN conversation_history |->
                Turn("assistant", conversation_history[i].content)]
    IN  <<SYSTEM_PROMPT, DocumentOpen>> \o document_text \o <<DocumentClose>>
           \o render_history(as_assistant)
           \o <<"Assistant: ">>

\* lines 46-60: the text handed to model.generate_content. Fixed pieces are
\* single elements; document and message contents are spliced in character
\* by character.
build_messages(document_text, conversation_history) ==
    <<SYSTEM_PROMPT, DocumentOpen>> \o document_text \o <<DocumentClose>>
       \o render_history(conversation_history)
       \o <<"Assistant: ">>

ErrNoFile == "Please upload a PDF file."
ErrNotPdf == "Only PDF files are supported."
ErrNoText == "Could not extract text from PDF. It may be scanned/image-based."
ErrException == "An error occurred"
ErrNoDocument == "Please upload a PDF first."
ErrEmptyMessage == "Please enter a message."

index(sess) ==
    Result(sess, FALSE,
           View(Has(sess, "document_text"),
                Set(Set(NoKw, "chat_history", Get(sess, "chat_history", <<>>)),
                    "filename", Get(sess, "filename", <<>>))),
           <<>>)

\* variant: the chat history is not reset when the document is stored
store_document_keep_history(sess, document_text, filename) ==
    Set(Set(sess, "document_text", document_text), "filename", filename)

\* lines 107-110: store the document and reset the chat
store_document(sess, document_text, filename) ==
    Set(Set(Set(sess, "document_text", document_text),
            "chat_history", <<>>),
        "filename", filename)

upload(sess, pdf_file) ==
    IF ~pdf_file.present \/ pdf_file.filename = <<>>
    THEN Result(sess, FALSE, View(FALSE, Set(NoKw, "error", ErrNoFile)), <<>>)
    ELSE IF ~EndsWith(Lower(pdf_file.filename), DotPdf)
    THEN Result(sess, FALSE, View(FALSE, Set(NoKw, "error", ErrNotPdf)), <<>>)
    ELSE IF ~pdf_file.readable
    THEN Result(sess, FALSE, View(FALSE, Set(NoKw, "error", ErrException)), <<>>)
    ELSE LET document_text == extract_text_from_pdf(pdf_file)
         IN  IF document_text = <<>>
             THEN Result(sess, FALSE, View(FALSE, Set(NoKw, "error", ErrNoText)), <<>>)
             ELSE Result(store_document(sess, document_text, pdf_file.filename),
                         TRUE,
                         View(TRUE, Set(Set(NoKw, "chat_history", <<>>),
                                        "filename", pdf_file.filename)),
                         <<>>)

\* lines 130-133: no document in the session
chat_no_document(sess) ==
    Result(sess, FALSE, View(FALSE, Set(NoKw, "error", ErrNoDocument)), <<>>)

\* lines 137-142: blank question
chat_empty_message(sess) ==
    Result(sess, FALSE,
           View(TRUE, Set(Set(Set(NoKw, "chat_history", Get(sess, "chat_history", <<>>)),
                              "filename", Get(sess, "filename", <<>>)),
                          "error", ErrEmptyMessage)),
           <<>>)

\* variant: the updated history is never assigned back to the session
chat_replied_unsaved(sess1, history1, text, call) ==
    LET history2 == Append(history1, Turn("assistant", text))
    IN  Result(sess1, FALSE,
               View(TRUE, Set(Set(NoKw, "chat_history", history2),
                              "filename", Get(sess1, "filename", <<>>))),
               <<call>>)

\* lines 152-161: the model replied; append the reply and save the history
chat_replied(sess1, history1, text, call) ==
    LET history2 == Append(history1, Turn("assistant", text))
        sess2 == Set(sess1, "chat_history", history2)
    IN  Result(sess2, TRUE,
               View(TRUE, Set(Set(NoKw, "chat_history", history2),
                              "filename", Get(sess2, "filename", <<>>))),
               <<call>>)

\* variant: the history holding the unanswered user turn is saved on failure
chat_failed_saved(sess1, call) ==
    Result(sess1, TRUE,
           View(TRUE, Set(Set(Set(NoKw, "chat_history", Get(sess1, "chat_history", <<>>)),
                              "filename", Get(sess1, "filename", <<>>)),
                          "error", ErrException)),
           <<call>>)

\* lines 163-168: the model call raised
chat_failed(sess1, call) ==
    Result(sess1, FALSE,
           View(TRUE, Set(Set(Set(NoKw, "chat_history", Get(sess1, "chat_history", <<>>)),
                              "filename", Get(sess1, "filename", <<>>)),
                          "error", ErrException)),
           <<call>>)

\* variant: a failed model call is attempted a second time
chat_turn_retry(sess, question, outcome) ==
    LET history1 == Append(Get(sess, "chat_history", <<>>), Turn("user", question))
        sess1 == IF Has(sess, "chat_history")
                 THEN [sess EXCEPT !["chat_history"] = history1]
                 ELSE sess
        call == [document_text |-> sess1["document_text"],
                 conversation_history |-> history1,
                 messages |-> build_messages(sess1["document_text"], history1)]
    IN  IF outcome.ok
        THEN chat_replied(sess1, history1, outcome.text, call)
        ELSE [chat_failed(sess1, call) EXCEPT !.calls = <<call, call>>]

\* lines 144-168: the try block. chat_history aliases the list held by the
\* session when the key exists, so append() changes the session object in
\* place without marking it modified.
chat_turn(sess, question, outcome) ==
    LET history1 == Append(Get(sess, "chat_history", <<>>), Turn("user", question))
        sess1 == IF Has(sess, "chat_history")
                 THEN [sess EXCEPT !["chat_history"] = history1]
                 ELSE sess
        call == [document_text |-> sess1["document_text"],
                 conversation_history |-> history1,
                 messages |-> build_messages(sess1["document_text"], history1)]
    IN  IF outcome.ok
        THEN chat_replied(sess1, history1, outcome.text, call)
        ELSE chat_failed(sess1, call)

\* variant: the blank-message check runs before the document check
chat_blank_first(sess, raw_question, outcome) ==
    LET question == Strip(raw_question)
    IN  IF question = <<>>
        THEN chat_empty_message(sess)
        ELSE IF ~Has(sess, "document_text")
             THEN chat_no_document(sess)
             ELSE chat_turn(sess, question, outcome)

chat(sess, raw_question, outcome) ==
    IF ~Has(sess, "document_text")
    THEN chat_no_document(sess)
    ELSE LET question == Strip(raw_question)
         IN  IF question = <<>>
             THEN chat_empty_message(sess)
             ELSE chat_turn(sess, question, outcome)

\* variant: only the document text is removed from the session
reset_document_only(sess) ==
    Result([k \in DOMAIN sess \ {"document_text"} |-> sess[k]], TRUE,
           View(FALSE, Set(NoKw, "chat_history", <<>>)),
           <<>>)

\* variant: only the chat history is emptied
reset_history_only(sess) ==
    Result(Set(sess, "chat_history", <<>>), TRUE,
           View(FALSE, Set(NoKw, "chat_history", <<>>)),
           <<>>)

reset(sess) ==
    Result(EmptySession, TRUE,
           View(FALSE, Set(NoKw, "chat_history", <<>>)),
           <<>>)

\* ---------------------------------------------------------------- state
VARIABLES
    store,      \* store[s]: the session cookie the client of s currently holds
    inflight,   \* inflight[s]: session copies of the requests of s being handled
    last        \* the most recently completed request

vars == <<store, inflight, last>>

NoRequest ==
    [sid |-> "", op |-> "none", file |-> NoFile, question |-> <<>>,
     outcome |-> [ok |-> FALSE, text |-> <<>>],
     pre |-> EmptySession, stored |-> EmptySession, result |-> index(EmptySession)]

Init ==
    /\ store = [s \in Sessions |-> EmptySession]
    /\ inflight = [s \in Sessions |-> <<>>]
    /\ last = NoRequest

RemoveAt(q, i) == SubSeq(q, 1, i - 1) \o SubSeq(q, i + 1, Len(q))

\* the client of s sends a request; it carries the client's current cookie
BeginRequest(s) ==
    /\ inflight[s] = <<>>
    /\ inflight' = [inflight EXCEPT ![s] = Append(@, store[s])]
    /\ UNCHANGED <<store, last>>

\* variant: the session is one process-wide object shared by every client
Respond_shared(s, i, op, file, question, outcome, r) ==
    /\ store' = IF r.modified THEN [b \in Sessions |-> r.session] ELSE store
    /\ inflight' = [inflight EXCEPT ![s] = RemoveAt(@, i)]
    /\ last' = [sid |-> s, op |-> op, file |-> file, question |-> question,
                outcome |-> outcome, pre |-> inflight[s][i], stored |-> store[s],
                result |-> r]

\* variant: the turns a request added are appended to the transcript stored
\* at the time of the response instead of replacing it
Respond_appends(s, i, op, file, question, outcome, r) ==
    LET pre == inflight[s][i]
        grown == /\ Has(r.session, "chat_history")
                 /\ Has(pre, "chat_history")
                 /\ Has(store[s], "chat_history")
                 /\ Len(r.session["chat_history"]) > Len(pre["chat_history"])
        added == SubSeq(r.session["chat_history"],
                        Len(pre["chat_history"]) + 1,
                        Len(r.session["chat_history"]))
    IN  /\ store' = IF ~r.modified THEN store
                    ELSE IF grown
                    THEN [store EXCEPT ![s]["chat_history"] = @ \o added]
                    ELSE [store EXCEPT ![s] = r.session]
        /\ inflight' = [inflight EXCEPT ![s] = RemoveAt(@, i)]
        /\ last' = [sid |-> s, op |-> op, file |-> file, question |-> question,
                    outcome |-> outcome, pre |-> inflight[s][i], stored |-> store[s],
                    result |-> r]

\* variant: only the keys the request changed are written, onto the session
\* stored at the time of the response
Respond_changed_keys(s, i, op, file, question, outcome, r) ==
    LET pre == inflight[s][i]
        changed == {k \in DOMAIN r.session :
                       k \notin DOMAIN pre \/ r.session[k] # pre[k]}
        merged == [k \in DOMAIN store[s] \cup changed |->
                      IF k \in changed THEN r.session[k] ELSE store[s][k]]
    IN  /\ store' = IF ~r.modified THEN store
                    ELSE IF r.session = EmptySession
                    THEN [store EXCEPT ![s] = EmptySession]
                    ELSE [store EXCEPT ![s] = merged]
        /\ inflight' = [inflight EXCEPT ![s] = RemoveAt(@, i)]
        /\ last' = [sid |-> s, op |-> op, file |-> file, question |-> question,
                    outcome |-> outcome, pre |-> inflight[s][i], stored |-> store[s],
                    result |-> r]

\* SecureCookieSessionInterface.save_session: the cookie is replaced by the
\* request's session object only when that object was marked modified
Respond(s, i, op, file, question, outcome, r) ==
    /\ store' = IF r.modified THEN [store EXCEPT ![s] = r.session] ELSE store
    /\ inflight' = [inflight EXCEPT ![s] = RemoveAt(@, i)]
    /\ last' = [sid |-> s, op |-> op, file |-> file, question |-> question,
                outcome |-> outcome, pre |-> inflight[s][i], stored |-> store[s],
                result |-> r]

Index(s) ==
    \E i \in DOMAIN inflight[s] :
        Respond(s, i, "index", NoFile, <<>>, NoRequest.outcome, index(inflight[s][i]))

\* F: the files the client may post
Upload(s, F) ==
    \E i \in DOMAIN inflight[s], f \in F :
        Respond(s, i, "upload", f, <<>>, NoRequest.outcome, upload(inflight[s][i], f))

\* Q: the messages the client may post; O: what the model call may do
Chat(s, Q, O) ==
    \E i \in DOMAIN inflight[s], q \in Q, o \in O :
        /\ o.ok => Len(Get(inflight[s][i], "chat_history", <<>>)) < 2 * MaxExchanges
        /\ Respond(s, i, "chat", NoFile, q, o, chat(inflight[s][i], q, o))

Reset(s) ==
    \E i \in DOMAIN inflight[s] :
        Respond(s, i, "reset", NoFile, <<>>, NoRequest.outcome, reset(inflight[s][i]))

\* One client, one request at a time, every input.
Next ==
    \E s \in {"A"} :
        \/ BeginRequest(s)
        \/ Index(s)
        \/ Upload(s, Files)
        \/ Chat(s, Questions, Outcomes)
        \/ Reset(s)

Spec == Init /\ [][Next]_vars

\* Two clients whose requests interleave freely. What a session holds plays
\* no part in which session a response is written to, so each kind of input
\* is represented once: a rejected and two accepted files, a blank and a
\* padded message, a reply and a failure.
IsoFiles == {FileTxt, FilePdf, FilePdfUpper}
IsoQuestions == {<<>>, <<" ", "a">>}
IsoOutcomes == {o \in Outcomes : o.text \in {<<>>, <<"r">>}}

NextIso ==
    \E s \in Sessions :
        \/ BeginRequest(s)
        \/ Index(s)
        \/ Upload(s, IsoFiles)
        \/ Chat(s, IsoQuestions, IsoOutcomes)
        \/ Reset(s)

SpecIso == Init /\ [][NextIso]_vars

\* One client whose requests overlap: nothing in app.py serialises the
\* requests of a session, so a request may be sent while others of the same
\* client are still being handled, each carrying the cookie held when it
\* was sent. Inputs: one accepted file, two different messages, a reply
\* and a failure.
BeginRequestConc(s) ==
    /\ Len(inflight[s]) < MaxInFlight
    /\ inflight' = [inflight EXCEPT ![s] = Append(@, store[s])]
    /\ UNCHANGED <<store, last>>

ConcFiles == {FilePdf}
ConcQuestions == {<<" ", "a">>, <<"a", " ", "b">>}
ConcOutcomes == {o \in Outcomes : o.text \in {<<>>, <<"r">>}}

NextConc ==
    \E s \in {"A"} :
        \/ BeginRequestConc(s)
        \/ Index(s)
        \/ Upload(s, ConcFiles)
        \/ Chat(s, ConcQuestions, ConcOutcomes)
        \/ Reset(s)

SpecConc == Init /\ [][NextConc]_vars

\* ---------------------------------------------------------- properties
\* `last` describes the request whose response was received most recently;
\* store[last.sid] is the session as that response left it, last.stored the
\* session as it was just before.
Transcript(sess) == Get(sess, "chat_history", <<>>)
Loaded(sess) == Has(sess, "document_text")
Blank(q) == \A i \in 1..Len(q) : q[i] \in Whitespace
Surfaced(r) == "error" \in DOMAIN r.resp

\* the question with the surrounding blanks removed, as the client typed it
Trimmed(q) ==
    CHOOSE w \in Words : \E l \in Pads(Len(q)), r \in Pads(Len(q)) : q = l \o w \o r

ChatReachedModel ==
    /\ last.op = "chat"
    /\ Loaded(last.pre)
    /\ ~Blank(last.question)

\* C1: a chat on a loaded session with a non-blank message whose model call
\* fails leaves the stored session (transcript, document, filename) as it
\* was before the request, and the requests sent afterwards read that
\* pre-failure transcript.
C1_FailedChatKeepsTranscript ==
    (ChatReachedModel /\ ~last.outcome.ok) =>
        /\ Len(last.result.calls) = 1
        /\ store[last.sid] = last.stored
        /\ Transcript(store[last.sid]) = Transcript(last.pre)
        /\ \A i \in DOMAIN inflight[last.sid] :
              Transcript(inflight[last.sid][i]) = Transcript(last.pre)

C1_Witness ==
    /\ ChatReachedModel /\ ~last.outcome.ok
    /\ Len(Transcript(last.pre)) = 2
    /\ inflight[last.sid] # <<>>

\* C2: a chat on a loaded session with stored transcript T, message u
\* (non-blank) and model reply a leaves the stored transcript equal to
\* T followed by the user turn with the trimmed u and the assistant turn
\* with a, and leaves document and filename unchanged.
C2_SuccessfulChatAppendsPair ==
    (ChatReachedModel /\ last.outcome.ok) =>
        /\ Transcript(store[last.sid]) =
              Transcript(last.stored) \o
                 << Turn("user", Trimmed(last.question)),
                    Turn("assistant", last.outcome.text) >>
        /\ store[last.sid]["document_text"] = last.stored["document_text"]
        /\ store[last.sid]["filename"] = last.stored["filename"]
        /\ DOMAIN store[last.sid] = DOMAIN last.stored

\* two successive successful chats: the second one found the first pair
C2_Witness ==
    /\ ChatReachedModel /\ last.outcome.ok
    /\ Len(Transcript(last.stored)) = 2
    /\ Len(Transcript(store[last.sid])) = 4
    /\ last.question # Trimmed(last.question)

UploadedGoodPdf == last.op = "upload" /\ last.file \in {FilePdf, FilePdfUpper}

ExpectedText(f) == IF f = FilePdf THEN <<"d">> ELSE <<"d", "\n", "e">>

\* C3: a successful upload replaces the whole session by the new document:
\* its extracted text, its filename and an empty transcript.
C3_UploadReplacesSession ==
    UploadedGoodPdf =>
        store[last.sid] =
            [document_text |-> ExpectedText(last.file),
             chat_history |-> <<>>,
             filename |-> last.file.filename]

C3_Witness ==
    /\ UploadedGoodPdf
    /\ Loaded(last.stored)
    /\ Transcript(last.stored) # <<>>
    /\ last.stored["document_text"] # store[last.sid]["document_text"]

\* C4: reset leaves the session without document, filename and transcript,
\* and resetting the result again changes nothing.
C4_ResetClearsSession ==
    last.op = "reset" =>
        /\ store[last.sid] = EmptySession
        /\ ~Loaded(store[last.sid])
        /\ Transcript(store[last.sid]) = <<>>
        /\ reset(store[last.sid]).session = store[last.sid]

C4_Witness ==
    /\ last.op = "reset"
    /\ Loaded(last.stored)
    /\ Transcript(last.stored) # <<>>

UploadedBadFile ==
    /\ last.op = "upload"
    /\ last.file \in {FileMissing, FileNoName, FileTxt, FileScanned, FileCorrupt}

\* C5: a failed upload (no file, no filename, not a .pdf name, no
\* extractable text, extraction raising) leaves the stored session as it
\* was and surfaces an error.
C5_FailedUploadKeepsSession ==
    UploadedBadFile =>
        /\ store[last.sid] = last.stored
        /\ Surfaced(last.result)

C5_Witness ==
    /\ UploadedBadFile
    /\ last.file = FileScanned
    /\ Loaded(last.stored)
    /\ Transcript(last.stored) # <<>>

BlankChatOnLoaded ==
    /\ last.op = "chat"
    /\ Loaded(last.pre)
    /\ Blank(last.question)

\* C6: a chat with an empty or whitespace-only message on a loaded session
\* makes no model call, leaves the stored session unchanged and surfaces
\* an error.
C6_BlankMessageRejected ==
    BlankChatOnLoaded =>
        /\ last.result.calls = <<>>
        /\ store[last.sid] = last.stored
        /\ Surfaced(last.result)

C6_Witness ==
    /\ BlankChatOnLoaded
    /\ last.question # <<>>
    /\ Transcript(last.stored) # <<>>

ChatWithoutDocument == last.op = "chat" /\ ~Loaded(last.pre)

\* C7: a chat on a session without document, whatever the message, yields
\* the no-document error, makes no model call and leaves the session
\* without document and without transcript.
C7_ChatWithoutDocumentRejected ==
    ChatWithoutDocument =>
        /\ last.result.resp["error"] = ErrNoDocument
        /\ last.result.calls = <<>>
        /\ store[last.sid] = last.stored
        /\ ~Loaded(store[last.sid])
        /\ ~Has(store[last.sid], "chat_history")

C7_Witness ==
    /\ ChatWithoutDocument
    /\ Blank(last.question)
    /\ last.outcome.ok

Alternates(t) ==
    /\ Len(t) % 2 = 0
    /\ \A i \in 1..Len(t) :
          t[i].role = IF i % 2 = 1 THEN "user" ELSE "assistant"

\* C8: the stored transcript of every session always has even length and
\* alternates user, assistant, user, assistant, ... starting with user.
C8_TranscriptAlternates ==
    \A s \in Sessions : Alternates(Transcript(store[s]))

\* a failed chat has just completed on a session holding two exchanges
C8_Witness ==
    /\ ChatReachedModel /\ ~last.outcome.ok
    /\ Len(Transcript(store[last.sid])) = 4

\* C9: a stored transcript is non-empty only if a document is stored with
\* it, and every model call is made with the session's document.
C9_TranscriptNeedsDocument ==
    /\ \A s \in Sessions : Transcript(store[s]) # <<>> => Loaded(store[s])
    /\ \A k \in DOMAIN last.result.calls :
          /\ Loaded(last.pre)
          /\ last.result.calls[k].document_text = last.pre["document_text"]
          /\ last.result.calls[k].document_text # <<>>

\* a model call has just been made on a session holding a transcript
C9_Witness ==
    /\ last.result.calls # <<>>
    /\ Transcript(last.pre) # <<>>
    /\ Transcript(store[last.sid]) # <<>>

\* C10: a step changes the stored session of b only if it is the response
\* to a request of b itself; requests of another session leave b's
\* document, filename and transcript unchanged.
C10_SessionsIsolated ==
    [][\A b \in Sessions :
          store'[b] # store[b] =>
              /\ last'.sid = b
              /\ Len(inflight'[b]) < Len(inflight[b])]_vars

\* the response to a request of A changed A while B holds another document
\* and has a request in flight
C10_Witness ==
    /\ last.sid = "A"
    /\ last.result.modified
    /\ store["A"] # last.stored
    /\ Loaded(store["B"])
    /\ Transcript(store["B"]) # <<>>
    /\ store["B"] # store["A"]
    /\ inflight["B"] # <<>>

\* the layout the prompt is meant to have, written out from the transcript
\* the request found and the message it carried
RECURSIVE ExpectedLines(_)
ExpectedLines(t) ==
    IF t = <<>> THEN <<>>
    ELSE (IF Head(t).role = "user" THEN <<"User", ": ">> ELSE <<"Assistant", ": ">>)
            \o Head(t).content \o <<"\n\n">> \o ExpectedLines(Tail(t))

ExpectedPrompt(doc, t, u) ==
    <<SYSTEM_PROMPT, DocumentOpen>> \o doc \o <<DocumentClose>>
       \o ExpectedLines(t)
       \o <<"User", ": ">> \o u \o <<"\n\n">>
       \o <<"Assistant: ">>

\* positions of the prompt that start a rendered turn
TurnStarts(p) == {i \in 1..Len(p) : p[i] \in {"User", "Assistant"}}

\* C11: the prompt of a chat turn is the system instructions, the delimited
\* document, one line per turn of the pre-turn transcript in order, the new
\* user message, and the cue "Assistant: "; the new message is rendered
\* once, after every prior turn, and the last turn before the cue is the
\* user's.
C11_PromptLayout ==
    \A k \in DOMAIN last.result.calls :
        LET p == last.result.calls[k].messages
            t == Transcript(last.pre)
        IN  /\ p = ExpectedPrompt(last.pre["document_text"], t,
                                  Trimmed(last.question))
            /\ Cardinality(TurnStarts(p)) = Len(t) + 1
            /\ p[Max(TurnStarts(p))] = "User"
            /\ p[Len(p)] = "Assistant: "

C11_Witness ==
    /\ last.result.calls # <<>>
    /\ Len(Transcript(last.pre)) = 2
    /\ last.question # Trimmed(last.question)
    /\ Len(last.pre["document_text"]) > 1

\* C13: no request makes more than one model call; a request makes one
\* exactly when it is a chat on a session holding a document with a message
\* that is non-empty after trimming; index, upload and reset make none.
C13_AtMostOneModelCall ==
    /\ Len(last.result.calls) <= 1
    /\ Len(last.result.calls) = 1 <=> ChatReachedModel
    /\ last.op \in {"index", "upload", "reset"} => last.result.calls = <<>>

\* the single call of a chat failed and was not repeated
C13_Witness ==
    /\ ChatReachedModel
    /\ ~last.outcome.ok
    /\ Len(last.result.calls) = 1

\* C14: the view rendered for a chat whose model call failed shows the
\* transcript as it was before the request, without the user message that
\* triggered the failure.
C14_FailedChatViewShowsOldTranscript ==
    (ChatReachedModel /\ ~last.outcome.ok) =>
        /\ Surfaced(last.result)
        /\ last.result.resp["chat_history"] = Transcript(last.stored)

\* C16: the has_document flag of every rendered view tells whether the
\* session holds a document at the end of the request.
C16_ViewFlagMatchesSession ==
    last.op # "none" =>
        /\ last.result.resp["has_document"] = Loaded(last.result.session)
        /\ last.result.resp["has_document"] = Loaded(store[last.sid])

\* l records a chat that reached the model and got a reply
SucceededChat(l) ==
    /\ l.op = "chat"
    /\ Loaded(l.pre)
    /\ ~Blank(l.question)
    /\ l.outcome.ok

\* the exchange of the chat l records
Pair(l) == << Turn("user", Trimmed(l.question)), Turn("assistant", l.outcome.text) >>

\* C12: two chats of one session that both read the stored transcript T
\* before either wrote, and both got a reply, are not serialised: when the
\* second response arrives the stored transcript is T followed by the second
\* exchange only, not T followed by both exchanges; the first is lost.
C12_OverlappingChatsLoseExchange ==
    [][\A s \in Sessions :
          ( /\ Len(inflight'[s]) < Len(inflight[s])
            /\ last.sid = s /\ last'.sid = s
            /\ SucceededChat(last) /\ SucceededChat(last')
            /\ last'.pre = last.pre )
          => LET T == Transcript(last.pre)
             IN  /\ Transcript(store[s]) = T \o Pair(last)
                 /\ Transcript(store'[s]) = T \o Pair(last')
                 /\ Transcript(store'[s]) # T \o Pair(last) \o Pair(last')
                 /\ Transcript(store'[s]) # T \o Pair(last') \o Pair(last)]_vars

\* the response of a chat has just replaced a transcript that held another
\* exchange added to the same T by an overlapping chat
C12_Witness ==
    /\ SucceededChat(last)
    /\ Transcript(last.pre) # <<>>
    /\ Len(Transcript(last.stored)) = Len(Transcript(last.pre)) + 2
    /\ SubSeq(Transcript(last.stored), 1, Len(Transcript(last.pre))) = Transcript(last.pre)
    /\ last.stored["document_text"] = last.pre["document_text"]
    /\ Transcript(last.stored) # Transcript(last.pre) \o Pair(last)
    /\ Transcript(store[last.sid]) = Transcript(last.pre) \o Pair(last)

\* a transcript that extends t by one user turn and one assistant turn
ExtendsByPair(new, t) ==
    /\ Len(new) = Len(t) + 2
    /\ SubSeq(new, 1, Len(t)) = t
    /\ new[Len(t) + 1].role = "user"
    /\ new[Len(t) + 2].role = "assistant"

\* C15: when requests of one session overlap, every transcript written is
\* empty or the transcript the writing request read plus one user and one
\* assistant turn; the stored transcript keeps even length and alternation,
\* and is never stored without a document, also when a chat completes after
\* an overlapping upload or reset.
C15_RacingWritesKeepShape ==
    /\ \A s \in Sessions :
          /\ Alternates(Transcript(store[s]))
          /\ Transcript(store[s]) # <<>> => Loaded(store[s])
    /\ (last.op # "none" /\ last.result.modified) =>
          \/ Transcript(store[last.sid]) = <<>>
          \/ ExtendsByPair(Transcript(store[last.sid]), Transcript(last.pre))

\* a chat has completed after an overlapping reset emptied the session
C15_Witness ==
    /\ SucceededChat(last)
    /\ last.stored = EmptySession
    /\ Transcript(store[last.sid]) # <<>>
    /\ Loaded(store[last.sid])

====
